---------------------------- MODULE Spec2Model ----------------------------
(***************************************************************************)
(* Model of appwrite-function-tools: the path based Router (match, handle), *)
(* the error helpers (isError, asError) and the validation helpers         *)
(* (throwIfMissing, getData).                                              *)
(*                                                                         *)
(* A JavaScript value is a record of the observations the code makes of    *)
(* it: typeof, the prototype chain (cls), String(v), the toString member,  *)
(* the name / message / stack members, JSON.stringify and constructor.name.*)
(***************************************************************************)
EXTENDS Integers, Sequences, FiniteSets, TLC

VARIABLES
    routes,     \* the recognizer's route table, built by the constructor
    pc,         \* where the current handle call is
    req,        \* its request
    handler,    \* the handler match gave it ("null": none)
    params,     \* the params match gave it
    events,     \* the capability calls (res.*, error) of the current dispatch, in order
    raised,     \* how the handler ended: returned, or threw a value
    invoked,    \* how many times handle invoked a handler in the current dispatch
    rejected,   \* whether handle's own promise rejected
    hops,       \* capability and helper calls the running handler has made
    helper,     \* the helper call (throwIfMissing, getData, asError) the handler just made
    lastMatch   \* the last direct call of match and its result

vars == <<routes, pc, req, handler, params, events, raised, invoked, rejected,
          hops, helper, lastMatch>>

(***************************************************************************)
(* Bounds of the model.                                                    *)
(***************************************************************************)
\* capability calls (res.*, error) and helper calls one handler run makes
MaxHandlerOps == 2
\* length of the key list handed to throwIfMissing
MaxKeys == 2

(***************************************************************************)
(* JavaScript values.                                                      *)
(***************************************************************************)
\* a member of an object: absent, a string, or a value of another type
Absent == [t |-> "absent", v |-> ""]
Str(s) == [t |-> "string", v |-> s]
Other(s) == [t |-> "other", v |-> s]

Prim(kind, s) ==
    [kind |-> kind, cls |-> "", str |-> s, tostr |-> "builtin",
     name |-> Absent, message |-> Absent, stack |-> Absent,
     json |-> [ok |-> TRUE, text |-> s], ctor |-> Absent]

Undefined == Prim("undefined", "undefined")
Null == Prim("null", "null")

\* an object literal / class instance without error members
Obj(cls, tostr, s, message, name, json, ctor) ==
    [kind |-> "object", cls |-> cls, str |-> s, tostr |-> tostr,
     name |-> name, message |-> message, stack |-> Absent,
     json |-> json, ctor |-> ctor]

\* new Error(message) with its name member set afterwards
NewError(cls, name, message) ==
    [kind |-> "object", cls |-> cls, str |-> "error", tostr |-> "custom",
     name |-> Str(name), message |-> Str(message), stack |-> Str("stack"),
     json |-> [ok |-> TRUE, text |-> "{}"], ctor |-> Str(cls)]

\* the TypeError the engine raises on calling or reading through undefined
EngineTypeError(message) == NewError("TypeError", "TypeError", message)

TypeOf(v) == IF v.kind = "null" THEN "object" ELSE v.kind

Ret(v) == [threw |-> FALSE, val |-> v]
Throw(v) == [threw |-> TRUE, val |-> v]


(***************************************************************************)
(* Values a handler or a validator may raise.                              *)
(***************************************************************************)
JsonOk(s) == [ok |-> TRUE, text |-> s]
JsonCyclic == [ok |-> FALSE, text |-> ""]

PlainObject == Obj("Object", "default", "[object Object]", Absent, Absent,
                   JsonOk("{\"code\":1}"), Str("Object"))
MessageObject == Obj("Object", "default", "[object Object]", Str("plain msg"),
                     Absent, JsonOk("{\"message\":\"plain msg\"}"), Str("Object"))
NonStringMessageObject == Obj("Object", "default", "[object Object]", Other("42"),
                              Absent, JsonOk("{\"message\":42}"), Str("Object"))
CyclicObject == Obj("Object", "default", "[object Object]", Absent, Absent,
                    JsonCyclic, Str("Object"))
\* Object.create(null): no toString and no constructor member
NullProtoObject == Obj("", "absent", "", Absent, Absent, JsonOk("{}"), Absent)
\* Object.create(null) given a toString member of its own: still no constructor
NoConstructorObject == Obj("", "custom", "bare", Absent, Absent, JsonOk("{}"), Absent)
CustomToStringObject == Obj("Foo", "custom", "foo!", Absent, Absent,
                            JsonOk("{}"), Str("Foo"))
\* a plain object with the members of an InvalidRequestError, not an instance
LookalikeObject == Obj("Object", "default", "[object Object]", Str("fake"),
                       Str("InvalidRequestError"), JsonOk("{}"), Str("Object"))

ThrownValues ==
    { Undefined, Null, Prim("number", "42"), Prim("string", "boom"),
      NewError("Error", "Error", "secret"),
      NewError("InvalidRequestError", "InvalidRequestError", "bad input"),
      PlainObject, MessageObject, NonStringMessageObject, CyclicObject,
      NullProtoObject, NoConstructorObject, CustomToStringObject, LookalikeObject }

(***************************************************************************)
(* src/error.ts                                                            *)
(***************************************************************************)
isObject(value) == TypeOf(value) = "object" /\ value.kind \notin {"null", "undefined"}

RetMsg(s) == [threw |-> FALSE, msg |-> s, err |-> Undefined]
ThrowMsg(e) == [threw |-> TRUE, msg |-> "", err |-> e]

getObjectMessage(obj) ==
    IF obj.message.t = "string" THEN RetMsg(obj.message.v)
    ELSE IF obj.tostr # "default"
         THEN IF obj.tostr = "absent"
              THEN ThrowMsg(EngineTypeError("obj.toString is not a function"))
              ELSE RetMsg(obj.str)
    ELSE IF obj.json.ok THEN RetMsg(obj.json.text)
    ELSE RetMsg(obj.str)

isError(err) ==
    /\ isObject(err)
    /\ err.name.t = "string"
    /\ err.message.t = "string"
    /\ (err.stack.t = "absent" \/ err.stack.t = "string")

asError(err) ==
    IF isError(err) THEN Ret(err)
    ELSE LET m == IF isObject(err) THEN getObjectMessage(err) ELSE RetMsg(err.str)
         IN  IF m.threw THEN Throw(m.err)
             ELSE IF isObject(err) /\ err.ctor.t = "absent"
                  THEN Throw(EngineTypeError("Cannot read properties of undefined"))
             ELSE Ret(NewError("Error",
                               IF isObject(err) /\ err.ctor.v # ""
                                  THEN err.ctor.v ELSE TypeOf(err),
                               m.msg))

(***************************************************************************)
(* src/validation.ts                                                       *)
(***************************************************************************)
InvalidRequestError(message) ==
    NewError("InvalidRequestError", "InvalidRequestError", message)

InstanceOfInvalidRequestError(v) == v.kind = "object" /\ v.cls = "InvalidRequestError"

\* members every object inherits from Object.prototype (all of them functions)
ObjectPrototypeKeys == {"toString"}

\* key in obj
HasProperty(obj, key) == key \in DOMAIN obj \/ key \in ObjectPrototypeKeys

\* obj[key], as a tag of the value found
GetProperty(obj, key) ==
    IF key \in DOMAIN obj THEN obj[key]
    ELSE IF key \in ObjectPrototypeKeys THEN "function" ELSE "undefined"

Truthy(tag) == tag \notin {"undefined", "null", "0", "''", "false"}

RECURSIVE Join(_, _)
Join(strs, sep) ==
    IF strs = << >> THEN ""
    ELSE IF Len(strs) = 1 THEN strs[1]
    ELSE strs[1] \o sep \o Join(Tail(strs), sep)

\* the loop with the falsy test left out: only keys not in obj are collected
RECURSIVE CollectMissingAbsentOnly(_, _, _, _)
CollectMissingAbsentOnly(obj, keys, i, missing) ==
    IF i > Len(keys) THEN missing
    ELSE CollectMissingAbsentOnly(obj, keys, i + 1,
            IF ~HasProperty(obj, keys[i]) THEN Append(missing, keys[i]) ELSE missing)

\* the for loop of throwIfMissing from index i on, missing being collected so far
RECURSIVE CollectMissing(_, _, _, _)
CollectMissing(obj, keys, i, missing) ==
    IF i > Len(keys) THEN missing
    ELSE CollectMissing(obj, keys, i + 1,
            IF ~HasProperty(obj, keys[i]) \/ ~Truthy(GetProperty(obj, keys[i]))
               THEN Append(missing, keys[i]) ELSE missing)

throwIfMissing(obj, keys) ==
    LET missing == CollectMissing(obj, keys, 1, << >>)
    IN  IF Len(missing) > 0
        THEN Throw(InvalidRequestError("Missing required fields: " \o Join(missing, ", ")))
        ELSE Ret(Undefined)

\* body: what reading req.bodyJson does; validator: what validator(body) does
getData(body, validator) ==
    IF body.threw
    THEN [threw |-> TRUE, val |-> InvalidRequestError("Invalid request body"),
          validatorCalls |-> 0]
    ELSE IF ~validator.threw
         THEN [threw |-> FALSE, val |-> validator.val, validatorCalls |-> 1]
    ELSE LET e == asError(validator.val)
         IN  IF e.threw
             THEN [threw |-> TRUE, val |-> e.val, validatorCalls |-> 1]
             ELSE [threw |-> TRUE, val |-> InvalidRequestError(e.val.message.v),
                   validatorCalls |-> 1]


(***************************************************************************)
(* Route patterns and request paths, as lists of segments.                 *)
(***************************************************************************)
Seg(s) == [dyn |-> FALSE, s |-> s]
Param(n) == [dyn |-> TRUE, s |-> n]

\* route definitions a Router may be constructed from
RouteDefLists ==
    { << >>,
      << [path |-> <<Seg("users")>>, handler |-> "listUsers"],
         [path |-> <<Seg("users"), Param("id")>>, handler |-> "getUser"],
         [path |-> <<Seg("users"), Seg("me")>>, handler |-> "getMe"] >>,
      << [path |-> <<Param("page")>>, handler |-> "showPage"],
         [path |-> <<Seg("users"), Param("id")>>, handler |-> "getUser"] >> }

Paths == { <<"users">>, <<"users", "42">>, <<"users", "me">>, <<"posts", "42">> }

Requests ==
    { [path |-> p, method |-> v[1], query |-> v[2]] :
        p \in Paths, v \in { <<"GET", "">>, <<"POST", "limit=1">> } }

NoRequest == [path |-> << >>, method |-> "", query |-> ""]

(***************************************************************************)
(* Router                                                                  *)
(***************************************************************************)
\* the constructor: every route definition is added to the recognizer, in order
Router(routeDefs) ==
    [i \in 1..Len(routeDefs) |->
        [path |-> routeDefs[i].path, handler |-> routeDefs[i].handler]]

\* route-recognizer: a pattern matches a path segment by segment
SegmentsMatch(pattern, path) ==
    /\ Len(pattern) = Len(path)
    /\ \A i \in 1..Len(pattern) : pattern[i].dyn \/ pattern[i].s = path[i]

StaticSegments(pattern) == Cardinality({i \in 1..Len(pattern) : ~pattern[i].dyn})

CapturedParams(pattern, path) ==
    { <<pattern[i].s, path[i]>> : i \in {j \in 1..Len(pattern) : pattern[j].dyn} }

\* route-recognizer's recognize: no result (<< >>) or the best match first,
\* static segments before dynamic ones, the earlier route on a tie
recognize(table, path) ==
    LET cands == {i \in 1..Len(table) : SegmentsMatch(table[i].path, path)}
    IN  IF cands = {} THEN << >>
        ELSE LET best == CHOOSE i \in cands : \A j \in cands :
                            \/ StaticSegments(table[i].path) > StaticSegments(table[j].path)
                            \/ /\ StaticSegments(table[i].path) = StaticSegments(table[j].path)
                               /\ i <= j
             IN  << [handler |-> table[best].handler,
                     params |-> CapturedParams(table[best].path, path)] >>

NoMatch == [handler |-> "null", params |-> {}]

\* a match that routes on the method as well: only GET requests match
matchMethodAware(r) ==
    LET results == recognize(routes, r.path)
    IN  IF results # << >> /\ r.method = "GET"
        THEN [handler |-> results[1].handler, params |-> results[1].params]
        ELSE NoMatch

match(r) ==
    LET results == recognize(routes, r.path)
    IN  IF results # << >>
        THEN [handler |-> results[1].handler, params |-> results[1].params]
        ELSE NoMatch

\* capability calls: res.json(body, status), res.text(body), error(arg)
\* (for res.json the body is given by its error member)
JsonCall(by, errorField, status) ==
    [op |-> "json", by |-> by, status |-> status, error |-> errorField]
TextCall(by, text) == [op |-> "text", by |-> by, body |-> text]
ErrorCall(by, arg) == [op |-> "error", by |-> by, arg |-> arg]

\* the not-found response with the status argument left out (200 by default)
onNotFoundDefaultStatus ==
    [calls |-> << JsonCall("router", "Not Found", 200) >>, rethrow |-> FALSE]

\* handle, no handler found: what it calls, and whether it throws
onNotFound ==
    [calls |-> << JsonCall("router", "Not Found", 404) >>, rethrow |-> FALSE]

\* a Router that answers for a handler that resolved
onResolvedImplicitResponse ==
    [calls |-> << TextCall("router", "") >>, rethrow |-> FALSE]

\* handle, the awaited handler resolved
onResolved == [calls |-> << >>, rethrow |-> FALSE]

\* the catch block without the instanceof branch
onRejectedAlways500(err) ==
    [calls |-> << ErrorCall("router", err),
                  JsonCall("router", "Internal Server Error", 500) >>,
     rethrow |-> FALSE]

\* the catch block sending the message of an error-like value with the 500
onRejectedLeakingMessage(err) ==
    [calls |-> << ErrorCall("router", err),
                  IF InstanceOfInvalidRequestError(err)
                     THEN JsonCall("router", err.message.v, 400)
                     ELSE JsonCall("router",
                                   IF err.message.t = "string" THEN err.message.v
                                   ELSE "Internal Server Error", 500) >>,
     rethrow |-> FALSE]

\* the catch block rethrowing what is no InvalidRequestError
onRejectedRethrow(err) ==
    IF InstanceOfInvalidRequestError(err)
    THEN [calls |-> << ErrorCall("router", err), JsonCall("router", err.message.v, 400) >>,
          rethrow |-> FALSE]
    ELSE [calls |-> << ErrorCall("router", err) >>, rethrow |-> TRUE]

\* the catch block logging only what it answers with a 500, after the response
onRejectedLogAfter(err) ==
    [calls |-> IF InstanceOfInvalidRequestError(err)
               THEN << JsonCall("router", err.message.v, 400) >>
               ELSE << JsonCall("router", "Internal Server Error", 500),
                       ErrorCall("router", err) >>,
     rethrow |-> FALSE]

\* handle, the catch block
onRejected(err) ==
    [calls |-> << ErrorCall("router", err),
                  IF InstanceOfInvalidRequestError(err)
                     THEN JsonCall("router", err.message.v, 400)
                     ELSE JsonCall("router", "Internal Server Error", 500) >>,
     rethrow |-> FALSE]

(***************************************************************************)
(* Inputs of the helper calls a handler makes.                             *)
(***************************************************************************)
OwnKeys == {"a", "b"}
ValueTags == {"1", "0"}
Objects == UNION { [S -> ValueTags] : S \in SUBSET OwnKeys }
KeyNames == {"a", "b", "toString"}
KeyLists == UNION { [1..n -> KeyNames] : n \in 0..MaxKeys }

\* reading req.bodyJson: the parsed body, or the getter throws
Bodies == { Ret(PlainObject), Throw(NewError("SyntaxError", "SyntaxError", "Unexpected token")) }
\* validator(body): returns the body or a value made from it, or throws
Validators == { Ret(PlainObject), Ret(Prim("number", "7")) } \cup { Throw(v) : v \in ThrownValues }

NoHelper == [fn |-> "none"]

NoLastMatch == [called |-> FALSE]

\* the handler has not thrown
NotRaised == [threw |-> FALSE]

(***************************************************************************)
(* The state machine.                                                      *)
(***************************************************************************)
Init ==
    /\ routes \in { Router(defs) : defs \in RouteDefLists }
    /\ pc = "idle"
    /\ req = NoRequest
    /\ handler = "null"
    /\ params = {}
    /\ events = << >>
    /\ raised = NotRaised
    /\ invoked = 0
    /\ rejected = FALSE
    /\ hops = 0
    /\ helper = NoHelper
    /\ lastMatch = NoLastMatch

\* application code calls router.match(r), at any time
Match(r) ==
    /\ lastMatch' = [called |-> TRUE, req |-> r, result |-> match(r)]
    /\ UNCHANGED <<routes, pc, req, handler, params, events, raised, invoked,
                   rejected, hops, helper>>

\* router.handle(data) up to its first suspension: match, then either the
\* not-found response or the call of the handler
HandleStart(r) ==
    /\ pc \in {"idle", "done"}
    /\ LET m == match(r)
       IN  /\ req' = r
           /\ handler' = m.handler
           /\ params' = m.params
           /\ raised' = NotRaised
           /\ hops' = 0
           /\ helper' = NoHelper
           /\ IF m.handler = "null"
              THEN /\ events' = onNotFound.calls
                   /\ rejected' = onNotFound.rethrow
                   /\ invoked' = 0
                   /\ pc' = "done"
              ELSE /\ events' = << >>
                   /\ rejected' = FALSE
                   /\ invoked' = 1
                   /\ pc' = "awaiting"
    /\ UNCHANGED <<routes, lastMatch>>

\* the running handler calls a response emitter
HandlerRespond ==
    /\ pc = "awaiting" /\ hops < MaxHandlerOps
    /\ events' = Append(events, TextCall("handler", "ok"))
    /\ hops' = hops + 1
    /\ helper' = NoHelper
    /\ UNCHANGED <<routes, pc, req, handler, params, raised, invoked, rejected,
                   lastMatch>>

\* the running handler calls the error-logging capability
HandlerLog ==
    /\ pc = "awaiting" /\ hops < MaxHandlerOps
    /\ events' = Append(events, ErrorCall("handler", Prim("string", "handler log")))
    /\ hops' = hops + 1
    /\ helper' = NoHelper
    /\ UNCHANGED <<routes, pc, req, handler, params, raised, invoked, rejected,
                   lastMatch>>

\* the running handler calls throwIfMissing(obj, keys); what it throws leaves the handler
HandlerThrowIfMissing(obj, keys) ==
    /\ pc = "awaiting" /\ hops < MaxHandlerOps
    /\ LET out == throwIfMissing(obj, keys)
       IN  /\ helper' = [fn |-> "throwIfMissing", obj |-> obj, keys |-> keys, out |-> out]
           /\ IF out.threw THEN pc' = "threw" /\ raised' = Throw(out.val)
                           ELSE UNCHANGED <<pc, raised>>
    /\ hops' = hops + 1
    /\ UNCHANGED <<routes, req, handler, params, events, invoked, rejected, lastMatch>>

\* the running handler calls getData(req, validator); what it throws leaves the handler
HandlerGetData(body, validator) ==
    /\ pc = "awaiting" /\ hops < MaxHandlerOps
    /\ LET out == getData(body, validator)
       IN  /\ helper' = [fn |-> "getData", body |-> body, validator |-> validator,
                          out |-> out]
           /\ IF out.threw THEN pc' = "threw" /\ raised' = Throw(out.val)
                           ELSE UNCHANGED <<pc, raised>>
    /\ hops' = hops + 1
    /\ UNCHANGED <<routes, req, handler, params, events, invoked, rejected, lastMatch>>

\* the running handler calls asError(v) on a value it caught; what it throws leaves the handler
HandlerAsError(v) ==
    /\ pc = "awaiting" /\ hops < MaxHandlerOps
    /\ LET out == asError(v)
       IN  /\ helper' = [fn |-> "asError", arg |-> v, out |-> out]
           /\ IF out.threw THEN pc' = "threw" /\ raised' = Throw(out.val)
                           ELSE UNCHANGED <<pc, raised>>
    /\ hops' = hops + 1
    /\ UNCHANGED <<routes, req, handler, params, events, invoked, rejected, lastMatch>>

\* the handler's promise resolves
HandlerReturn ==
    /\ pc = "awaiting"
    /\ pc' = "returned"
    /\ raised' = NotRaised
    /\ helper' = NoHelper
    /\ UNCHANGED <<routes, req, handler, params, events, invoked, rejected, hops,
                   lastMatch>>

\* the handler throws v (or its promise rejects with v)
HandlerThrow(v) ==
    /\ pc = "awaiting"
    /\ pc' = "threw"
    /\ raised' = Throw(v)
    /\ helper' = NoHelper
    /\ UNCHANGED <<routes, req, handler, params, events, invoked, rejected, hops,
                   lastMatch>>

\* handle resumes after the await: the handler resolved
HandleResume ==
    /\ pc = "returned"
    /\ events' = events \o onResolved.calls
    /\ rejected' = onResolved.rethrow
    /\ pc' = "done"
    /\ helper' = NoHelper
    /\ UNCHANGED <<routes, req, handler, params, raised, invoked, hops, lastMatch>>

\* handle resumes after the await: the handler threw, the catch block runs
HandleCatch ==
    /\ pc = "threw"
    /\ events' = events \o onRejected(raised.val).calls
    /\ rejected' = onRejected(raised.val).rethrow
    /\ pc' = "done"
    /\ helper' = NoHelper
    /\ UNCHANGED <<routes, req, handler, params, raised, invoked, hops, lastMatch>>

\* a dispatch whose handler uses the capabilities it is given, with direct
\* calls of match in between
Next ==
    \/ \E r \in Requests : Match(r)
    \/ \E r \in Requests : HandleStart(r)
    \/ HandlerRespond
    \/ HandlerLog
    \/ HandlerReturn
    \/ \E v \in ThrownValues : HandlerThrow(v)
    \/ HandleResume
    \/ HandleCatch

Spec == Init /\ [][Next]_vars

\* a dispatch whose handler calls the validation and error helpers
NextHelpers ==
    \/ \E r \in Requests : HandleStart(r)
    \/ \E obj \in Objects, keys \in KeyLists : HandlerThrowIfMissing(obj, keys)
    \/ \E body \in Bodies, validator \in Validators : HandlerGetData(body, validator)
    \/ \E v \in ThrownValues : HandlerAsError(v)
    \/ HandlerReturn
    \/ HandleResume
    \/ HandleCatch

SpecHelpers == Init /\ [][NextHelpers]_vars

(***************************************************************************)
(* Observations of a dispatch.                                             *)
(***************************************************************************)
ByRouter(e) == e.by = "router"
ByHandler(e) == e.by = "handler"
IsEmission(e) == e.op # "error"
IsLog(e) == e.op = "error"

RouterCalls == SelectSeq(events, ByRouter)
HandlerCalls == SelectSeq(events, ByHandler)
Emissions(calls) == SelectSeq(calls, IsEmission)
Logs(calls) == SelectSeq(calls, IsLog)

NoRouteMatches(path) ==
    \A i \in 1..Len(routes) : ~SegmentsMatch(routes[i].path, path)

HandlerRaisedInvalidRequest ==
    pc = "done" /\ invoked = 1 /\ raised.threw /\ InstanceOfInvalidRequestError(raised.val)

HandlerRaisedOther ==
    pc = "done" /\ invoked = 1 /\ raised.threw /\ ~InstanceOfInvalidRequestError(raised.val)

HandlerResolved == pc = "done" /\ invoked = 1 /\ ~raised.threw

(***************************************************************************)
(* C1: when the request path matches no registered route, a finished       *)
(* handle has made exactly one capability call, res.json({error: 'Not      *)
(* Found'}, 404), has invoked no handler, has not called the error log and *)
(* has not thrown.                                                         *)
(***************************************************************************)
C1_NotFoundResponse ==
    (pc = "done" /\ NoRouteMatches(req.path)) =>
        /\ events = << JsonCall("router", "Not Found", 404) >>
        /\ invoked = 0
        /\ ~rejected

C1_Witness ==
    pc = "done" /\ Len(routes) > 0 /\ NoRouteMatches(req.path) /\ Len(events) = 1

(***************************************************************************)
(* C2, as stated: when the matched handler raised an InvalidRequestError   *)
(* with message M, the dispatch holds exactly one response emission, the   *)
(* 400 with body {error: M}, and exactly one call of the error log, with   *)
(* the raised value.                                                       *)
(***************************************************************************)
C2_Original ==
    HandlerRaisedInvalidRequest =>
        /\ Emissions(events) = << JsonCall("router", raised.val.message.v, 400) >>
        /\ Logs(events) = << ErrorCall("router", raised.val) >>

(***************************************************************************)
(* C2, amended: when the matched handler raised an InvalidRequestError     *)
(* with message M, handle itself makes exactly one response emission, the  *)
(* 400 with body {error: M}, and exactly one call of the error log, with   *)
(* the raised value; they are the only emission and the only log call of   *)
(* the dispatch when the handler made no capability call before raising.   *)
(***************************************************************************)
C2_ClientErrorResponse ==
    HandlerRaisedInvalidRequest =>
        /\ Emissions(RouterCalls) = << JsonCall("router", raised.val.message.v, 400) >>
        /\ Logs(RouterCalls) = << ErrorCall("router", raised.val) >>
        /\ (HandlerCalls = << >> => Len(events) = 2)

C2_Witness ==
    /\ HandlerRaisedInvalidRequest
    /\ Emissions(HandlerCalls) # << >>
    /\ Len(Emissions(events)) = 2

(***************************************************************************)
(* C3: when the matched handler raised a value that is no                  *)
(* InvalidRequestError, handle emits the 500 with the fixed body {error:   *)
(* 'Internal Server Error'}, whatever the value or its message, and the    *)
(* error log receives the raised value itself.                             *)
(***************************************************************************)
C3_ServerErrorResponse ==
    HandlerRaisedOther =>
        /\ Emissions(RouterCalls) = << JsonCall("router", "Internal Server Error", 500) >>
        /\ Logs(RouterCalls) = << ErrorCall("router", raised.val) >>

C3_Witness ==
    /\ HandlerRaisedOther
    /\ raised.val = NewError("Error", "Error", "secret")
    /\ \E i \in 1..Len(events) : events[i].op = "json" /\ events[i].status = 500

(***************************************************************************)
(* C4: when the matched handler resolved without calling a response        *)
(* emitter, handle has made no capability call of its own, and the         *)
(* dispatch holds no emission.                                             *)
(***************************************************************************)
C4_SuccessAddsNothing ==
    (HandlerResolved /\ Emissions(HandlerCalls) = << >>) =>
        /\ RouterCalls = << >>
        /\ Emissions(events) = << >>

C4_Witness ==
    HandlerResolved /\ Emissions(HandlerCalls) = << >> /\ Logs(HandlerCalls) # << >>

(***************************************************************************)
(* C5: a finished handle is in exactly one of the outcomes NotFound,       *)
(* Success, ClientError, ServerError, and has not thrown.                  *)
(***************************************************************************)
OutcomeNotFound ==
    invoked = 0 /\ RouterCalls = << JsonCall("router", "Not Found", 404) >>
OutcomeSuccess ==
    invoked = 1 /\ ~raised.threw /\ RouterCalls = << >>
OutcomeClientError ==
    /\ invoked = 1 /\ raised.threw
    /\ Len(Emissions(RouterCalls)) = 1
    /\ Emissions(RouterCalls)[1].op = "json" /\ Emissions(RouterCalls)[1].status = 400
OutcomeServerError ==
    /\ invoked = 1 /\ raised.threw
    /\ Len(Emissions(RouterCalls)) = 1
    /\ Emissions(RouterCalls)[1].op = "json" /\ Emissions(RouterCalls)[1].status = 500

C5_OneOutcomeNeverThrows ==
    pc = "done" =>
        /\ ~rejected
        /\ Cardinality({ o \in {"NotFound", "Success", "ClientError", "ServerError"} :
                           \/ o = "NotFound" /\ OutcomeNotFound
                           \/ o = "Success" /\ OutcomeSuccess
                           \/ o = "ClientError" /\ OutcomeClientError
                           \/ o = "ServerError" /\ OutcomeServerError }) = 1

C5_Witness ==
    pc = "done" /\ OutcomeServerError /\ raised.val = CyclicObject /\ HandlerCalls # << >>

(***************************************************************************)
(* C9: every 400 or 500 handle emits comes right after its call of the     *)
(* error log with the raised value, and a finished handle whose handler    *)
(* raised has made that log call, whatever was raised.                     *)
(***************************************************************************)
C9_LogBeforeResponse ==
    /\ \A i \in 1..Len(RouterCalls) :
          (RouterCalls[i].op = "json" /\ RouterCalls[i].status \in {400, 500}) =>
              /\ i > 1
              /\ RouterCalls[i - 1] = ErrorCall("router", raised.val)
    /\ (pc = "done" /\ raised.threw) =>
          /\ Len(RouterCalls) = 2
          /\ RouterCalls[1] = ErrorCall("router", raised.val)
          /\ RouterCalls[2].op = "json"

C9_Witness ==
    /\ pc = "done" /\ raised.threw /\ raised.val = Prim("string", "boom")
    /\ Len(events) = 3 /\ events[1].by = "handler"
    /\ events[2].op = "error" /\ events[3].op = "json" /\ events[3].status = 500

(***************************************************************************)
(* C10: no step changes the route table; two direct calls of match with    *)
(* the same path give the same result, whatever the method and the query;  *)
(* a direct call gives what the running handle got for the same path; and  *)
(* a path no pattern matches gives {handler: null, params: {}}.            *)
(***************************************************************************)
C10_MatchIsPure ==
    /\ [][ /\ routes' = routes
           /\ (lastMatch.called /\ lastMatch'.req.path = lastMatch.req.path)
                 => lastMatch'.result = lastMatch.result ]_vars
    /\ [](lastMatch.called =>
            /\ NoRouteMatches(lastMatch.req.path) => lastMatch.result = NoMatch
            /\ (pc # "idle" /\ lastMatch.req.path = req.path)
                  => lastMatch.result = [handler |-> handler, params |-> params])

C10_Witness ==
    /\ lastMatch.called /\ pc = "awaiting"
    /\ lastMatch.req.path = req.path
    /\ lastMatch.req.method # req.method /\ lastMatch.req.query # req.query
    /\ lastMatch.result.params # {}

(***************************************************************************)
(* C6: getData raises an InvalidRequestError carrying the normalized       *)
(* message of whatever the validator raised, and nothing else ever leaves  *)
(* it; when reading the body fails it raises InvalidRequestError 'Invalid  *)
(* request body' without calling the validator; otherwise it returns what  *)
(* the validator returned.                                                 *)
(***************************************************************************)
\* the message of the normalized error, as section 4.2 of the specification derives it
NormalizedMessage(v) ==
    IF isError(v) THEN v.message.v
    ELSE IF ~isObject(v) THEN v.str
    ELSE IF v.message.t = "string" THEN v.message.v
    ELSE IF v.tostr = "custom" THEN v.str
    ELSE IF v.json.ok THEN v.json.text
    ELSE "[object Object]"

C6_GetDataRaisesInvalidRequest ==
    helper.fn = "getData" =>
        /\ helper.body.threw =>
              /\ helper.out.threw
              /\ helper.out.val = InvalidRequestError("Invalid request body")
              /\ helper.out.validatorCalls = 0
        /\ (~helper.body.threw /\ helper.validator.threw) =>
              /\ helper.out.threw
              /\ InstanceOfInvalidRequestError(helper.out.val)
              /\ helper.out.val.message = Str(NormalizedMessage(helper.validator.val))
        /\ (~helper.body.threw /\ ~helper.validator.threw) =>
              /\ ~helper.out.threw
              /\ helper.out.val = helper.validator.val

(***************************************************************************)
(* C7: asError never raises and returns an error with a string name and a  *)
(* string message for every input; an input that is already error-like is *)
(* returned unchanged.                                                     *)
(***************************************************************************)
C7_AsErrorNeverRaises ==
    helper.fn = "asError" =>
        /\ ~helper.out.threw
        /\ helper.out.val.name.t = "string"
        /\ helper.out.val.message.t = "string"
        /\ isError(helper.arg) => helper.out.val = helper.arg

=============================================================================
